---------------------------- MODULE Spec2Model ----------------------------
(***************************************************************************)
(* SBS Report: committee-progress tracker.                                 *)
(*                                                                         *)
(* The repository holds two builds of the same server:                     *)
(*   src/server.js         sql.js: the database lives in memory and is     *)
(*                         written to DB_PATH by saveDB()                  *)
(*   src/unnamed/part_000  better-sqlite3: the database is the file,       *)
(*                         WAL journal, foreign_keys = ON, db.transaction  *)
(* impl says which build a behaviour runs.  Definitions that model         *)
(* part_000 end in B.  Route handlers are synchronous JavaScript, so each  *)
(* handler runs to completion: one action per handler, and every           *)
(* interleaving of overlapping requests is a sequence of these actions.    *)
(***************************************************************************)
EXTENDS Integers, Sequences, FiniteSets, TLC

VARIABLES impl,    \* "sqljs" (server.js) or "bs3" (part_000)
          pc,      \* "down", "opened", "seeded", "serving"
          file,    \* the file at DB_PATH: [exists, db]
          live,    \* the database the running process queries
          req,     \* the request handled by the last step
          resp     \* the response it was given

vars == <<impl, pc, file, live, req, resp>>

-----------------------------------------------------------------------------
(* Bounds *)

\* tasks.id is AUTOINCREMENT and only grows: requests that would take it past
\* MaxTaskId are not sent
MaxTaskId == 5

-----------------------------------------------------------------------------
(* JavaScript / SQL values *)

NULL == "<null>"

UNDEFINED == "<undefined>"

\* Strings that go through base64 are sequences of characters.
UNDEFINED_S == <<"<undefined>">>

NULL_S == <<"<null>">>

Code == [c \in {":", "a", "b", "d", "i", "m", "n", "s", "x", "2", "5", "6", "9"} |->
           CASE c = ":" -> 58 [] c = "a" -> 97 [] c = "b" -> 98 [] c = "d" -> 100
             [] c = "i" -> 105 [] c = "m" -> 109 [] c = "n" -> 110 [] c = "s" -> 115
             [] c = "x" -> 120 [] c = "2" -> 50 [] c = "5" -> 53 [] c = "6" -> 54
             [] c = "9" -> 57]

Pad == 64

Bytes(s) == [i \in 1..Len(s) |-> Code[s[i]]]

\* Buffer#toString(): bytes to characters (U+FFFD for what is not in the alphabet)
toString(bytes) ==
  [i \in 1..Len(bytes) |->
     IF \E c \in DOMAIN Code : Code[c] = bytes[i]
       THEN CHOOSE c \in DOMAIN Code : Code[c] = bytes[i]
       ELSE "?"]

RECURSIVE Base64Encode(_)
Base64Encode(b) ==
  IF Len(b) = 0 THEN <<>>
  ELSE IF Len(b) = 1 THEN <<b[1] \div 4, (b[1] % 4) * 16, Pad, Pad>>
  ELSE IF Len(b) = 2 THEN
    LET n == b[1] * 256 + b[2]
    IN  <<n \div 1024, (n \div 16) % 64, (n % 16) * 4, Pad>>
  ELSE
    LET n == b[1] * 65536 + b[2] * 256 + b[3]
    IN  <<n \div 262144, (n \div 4096) % 64, (n \div 64) % 64, n % 64>>
          \o Base64Encode(SubSeq(b, 4, Len(b)))

RECURSIVE UpToPad(_)
UpToPad(s) ==
  IF Len(s) = 0 \/ s[1] = Pad THEN <<>> ELSE <<s[1]>> \o UpToPad(Tail(s))

RECURSIVE DecodeSextets(_)
DecodeSextets(s) ==
  IF Len(s) < 2 THEN <<>>
  ELSE IF Len(s) = 2 THEN <<s[1] * 4 + s[2] \div 16>>
  ELSE IF Len(s) = 3 THEN
    LET n == s[1] * 4096 + s[2] * 64 + s[3]
    IN  <<n \div 1024, (n \div 4) % 256>>
  ELSE
    LET n == s[1] * 262144 + s[2] * 4096 + s[3] * 64 + s[4]
    IN  <<n \div 65536, (n \div 256) % 256, n % 256>>
          \o DecodeSextets(SubSeq(s, 5, Len(s)))

\* Buffer.from(token, 'base64')
Base64Decode(token) == DecodeSextets(UpToPad(token))

\* String.prototype.split(sep): every piece between separators
RECURSIVE split(_, _)
split(s, sep) ==
  IF \A i \in 1..Len(s) : s[i] # sep THEN <<s>>
  ELSE LET k == CHOOSE i \in 1..Len(s) : s[i] = sep /\ \A j \in 1..(i - 1) : s[j] # sep
       IN  <<SubSeq(s, 1, k - 1)>> \o split(SubSeq(s, k + 1, Len(s)), sep)

\* the client's header: Authorization: Basic base64(username:password)
BasicHeader(u, p) ==
  [scheme |-> "Basic", token |-> Base64Encode(Bytes(u \o <<":">> \o p))]

-----------------------------------------------------------------------------
(* Inputs *)

Admin == <<"a", "d", "m", "i", "n">>

Bob == <<"b">>

DefaultPassword == <<"s", "b", "s", "2", "5", "6", "9">>

Usernames == {Admin, Bob}

\* a second password, with a colon in it: "sbs2569:x"
ColonPassword == DefaultPassword \o <<":", "x">>

Passwords == {DefaultPassword, ColonPassword}

NoHeader == [scheme |-> "none", token |-> <<>>]

Bearer == [scheme |-> "Bearer", token |-> <<>>]

\* Basic base64("admin"): no colon in the decoded text
NoColon == [scheme |-> "Basic", token |-> Base64Encode(Bytes(Admin))]

Headers ==
  {NoHeader, Bearer, NoColon, BasicHeader(Bob, DefaultPassword)}
    \cup {BasicHeader(Admin, p) : p \in Passwords}

\* datetime('now','localtime'): what the clock reads when the seed runs, and
\* what it can read when a later statement runs
SeedTime == "t0"

Times == {"t1"}

RequestIds == {1, 2, 3}

X == [text |-> "x", done |-> TRUE]

Y == [text |-> "y", done |-> FALSE]

\* {text: null}: the INSERT of this task is rejected (text TEXT NOT NULL)
N == [text |-> NULL, done |-> FALSE]

\* the task lists sent: empty, one task, a pair in both orders, a list whose
\* first INSERT is rejected, a list whose second INSERT is rejected
TaskLists == {<<>>, <<X>>, <<X, Y>>, <<Y, X>>, <<N>>, <<X, N>>}

\* request bodies of PUT .../tasks: {tasks: [...]}
TaskBodies == {[tasks |-> l] : l \in TaskLists}

FullFields ==
  [title |-> "T", appendix |-> NULL, status |-> "completed", percent |-> 100,
   start_date |-> "d1", end_date |-> NULL, notes |-> "n"]

\* the editable field sets sent to PUT /api/admin/committees/:id: every key is
\* present; title is a string or null
FieldSets == {FullFields, [FullFields EXCEPT !.title = NULL]}

\* require('./data/seed'): the fixed ordered list of committees with their tasks
seed ==
  <<[id |-> 1, title |-> "A", appendix |-> "ap1", status |-> "in-progress",
     percent |-> 50, start_date |-> NULL, end_date |-> NULL, notes |-> NULL,
     tasks |-> <<[text |-> "p", done |-> TRUE], [text |-> "q", done |-> FALSE]>>],
    [id |-> 2, title |-> "B", appendix |-> NULL, status |-> "not-started",
     percent |-> 0, start_date |-> NULL, end_date |-> NULL, notes |-> NULL,
     tasks |-> <<[text |-> "r", done |-> FALSE]>>]>>

SeedIds == {seed[i].id : i \in 1..Len(seed)}

-----------------------------------------------------------------------------
(* The database: three tables and the AUTOINCREMENT counters *)

EmptyDB ==
  [committees |-> {}, tasks |-> {}, admin_users |-> {}, taskSeq |-> 0, adminSeq |-> 0]

NoFile == [exists |-> FALSE, db |-> EmptyDB]

\* the outcome of running statements: ok = FALSE when one threw
Ran(db) == [ok |-> TRUE, db |-> db]

Threw(db) == [ok |-> FALSE, db |-> db]

\* INSERT INTO committees (id,title,...) VALUES (?,...)
insertCommittee(db, c, now) ==
  IF c.title \in {NULL, UNDEFINED} \/ c.status \in {NULL, UNDEFINED}
       \/ \E r \in db.committees : r.id = c.id
    THEN Threw(db)
    ELSE Ran([db EXCEPT !.committees = @ \cup
           {[id |-> c.id, title |-> c.title, appendix |-> c.appendix,
             status |-> c.status, percent |-> c.percent, start_date |-> c.start_date,
             end_date |-> c.end_date, notes |-> c.notes, updated_at |-> now]}])

\* insertTask binding 0 as sort_order instead of the index
insertTask_NoIndex(db, fk, cid, t, i) ==
  IF t.text \in {NULL, UNDEFINED} THEN Threw(db)
  ELSE IF fk /\ ~\E c \in db.committees : c.id = cid THEN Threw(db)
  ELSE Ran([db EXCEPT
         !.tasks = @ \cup {[id |-> db.taskSeq + 1, committee_id |-> cid, text |-> t.text,
                            done |-> IF t.done THEN 1 ELSE 0, sort_order |-> 0]},
         !.taskSeq = @ + 1])

\* INSERT INTO tasks (committee_id,text,done,sort_order) VALUES (?,?,?,?)
\* fk: whether the connection enforces FOREIGN KEY (committee_id)
insertTask(db, fk, cid, t, i) ==
  IF t.text \in {NULL, UNDEFINED} THEN Threw(db)
  ELSE IF fk /\ ~\E c \in db.committees : c.id = cid THEN Threw(db)
  ELSE Ran([db EXCEPT
         !.tasks = @ \cup {[id |-> db.taskSeq + 1, committee_id |-> cid, text |-> t.text,
                            done |-> IF t.done THEN 1 ELSE 0, sort_order |-> i]},
         !.taskSeq = @ + 1])

\* tasks.forEach((t, i) => INSERT ...): stops at the first statement that throws
RECURSIVE insertTasks(_, _, _, _, _)
insertTasks(db, fk, cid, tasks, i) ==
  IF i >= Len(tasks) THEN Ran(db)
  ELSE LET r == insertTask(db, fk, cid, tasks[i + 1], i)
       IN  IF r.ok THEN insertTasks(r.db, fk, cid, tasks, i + 1) ELSE r

\* DELETE FROM tasks WHERE committee_id=?
deleteTasks(db, cid) ==
  [db EXCEPT !.tasks = {t \in @ : t.committee_id # cid}]

\* updateCommitteeSql without its WHERE clause: every row is overwritten
updateCommitteeSql_NoWhere(db, id, f, now) ==
  IF db.committees # {} /\ (f.title = NULL \/ f.status = NULL)
    THEN Threw(db)
  ELSE Ran([db EXCEPT !.committees =
         {[id |-> c.id, title |-> f.title, appendix |-> f.appendix,
           status |-> f.status, percent |-> f.percent,
           start_date |-> f.start_date, end_date |-> f.end_date,
           notes |-> f.notes, updated_at |-> now] : c \in @}])

\* UPDATE committees SET title=?,...,updated_at=datetime('now','localtime') WHERE id=?
updateCommitteeSql(db, id, f, now) ==
  IF (\E c \in db.committees : c.id = id) /\ (f.title = NULL \/ f.status = NULL)
    THEN Threw(db)
  ELSE Ran([db EXCEPT !.committees =
         {IF c.id = id
            THEN [id |-> c.id, title |-> f.title, appendix |-> f.appendix,
                  status |-> f.status, percent |-> f.percent,
                  start_date |-> f.start_date, end_date |-> f.end_date,
                  notes |-> f.notes, updated_at |-> now]
            ELSE c : c \in @}])

\* UPDATE admin_users SET password=? WHERE username=?
updatePasswordSql(db, username, newPassword) ==
  IF UNDEFINED_S \in {username, newPassword} THEN Threw(db)
  ELSE IF (\E u \in db.admin_users : u.username = username) /\ newPassword = NULL_S
    THEN Threw(db)
  ELSE Ran([db EXCEPT !.admin_users =
         {IF u.username = username THEN [u EXCEPT !.password = newPassword] ELSE u
            : u \in @}])

\* INSERT INTO admin_users (username,password) VALUES ('admin','sbs2569')
insertAdmin(db) ==
  [db EXCEPT
     !.admin_users = @ \cup {[id |-> db.adminSeq + 1, username |-> Admin,
                              password |-> DefaultPassword]},
     !.adminSeq = @ + 1]

\* SELECT ... FROM admin_users WHERE username=? AND password=?
selectUser(db, username, password) ==
  {u \in db.admin_users : u.username = username /\ u.password = password}

\* for (const c of seed) { INSERT committee; c.tasks.forEach(INSERT task) }
RECURSIVE seedLoop(_, _, _, _)
seedLoop(db, fk, k, now) ==
  IF k > Len(seed) THEN Ran(db)
  ELSE LET c == insertCommittee(db, seed[k], now)
           t == insertTasks(c.db, fk, seed[k].id, seed[k].tasks, 0)
       IN  IF ~c.ok THEN c ELSE IF ~t.ok THEN t ELSE seedLoop(t.db, fk, k + 1, now)

\* SELECT * FROM tasks WHERE committee_id=? ORDER BY sort_order, done as a boolean
RECURSIVE orderBySortOrder(_)
orderBySortOrder(rows) ==
  IF rows = {} THEN <<>>
  ELSE LET m == CHOOSE r \in rows : \A o \in rows :
                  r.sort_order < o.sort_order
                    \/ (r.sort_order = o.sort_order /\ r.id <= o.id)
       IN  <<[m EXCEPT !.done = (m.done # 0)]>> \o orderBySortOrder(rows \ {m})

tasksOf(db, cid) == orderBySortOrder({t \in db.tasks : t.committee_id = cid})

\* SELECT * FROM committees ORDER BY id, each with its tasks
RECURSIVE committeesWithTasks(_, _)
committeesWithTasks(db, rows) ==
  IF rows = {} THEN <<>>
  ELSE LET m == CHOOSE r \in rows : \A o \in rows : r.id <= o.id
       IN  <<[c |-> m, tasks |-> tasksOf(db, m.id)]>> \o committeesWithTasks(db, rows \ {m})

-----------------------------------------------------------------------------
(* Responses *)

NoResp == [status |-> 0, error |-> ""]

Json(status, error) == [status |-> status, error |-> error]

Ok == Json(200, "")

\* a handler or middleware that throws: Express answers 500 and keeps running
ServerError == Json(500, "Internal Server Error")

-----------------------------------------------------------------------------
(* server.js: persistence *)

\* fs.writeFileSync(DB_PATH, Buffer.from(db.export()))
saveDB(db) == [exists |-> TRUE, db |-> db]

\* runSql without the saveDB() call
runSql_NoSave(f, r) == [ok |-> r.ok, live |-> r.db, file |-> f]

\* db.run(sql, params); saveDB();   r is the outcome of the statement on the
\* in-memory database, f the file before it
runSql(f, r) ==
  IF r.ok THEN [ok |-> TRUE, live |-> r.db, file |-> saveDB(r.db)]
  ELSE [ok |-> FALSE, live |-> r.db, file |-> f]

\* the emptiness test made on the tasks table instead of committees
seedIsNeeded_TasksTable(db) == Cardinality(db.tasks) = 0

\* count === 0
seedIsNeeded(db) == Cardinality(db.committees) = 0

(* part_000: the connection is the file; a statement outside a transaction   *)
(* commits by itself, db.transaction(fn)() commits when fn returns and rolls *)
(* back when it throws                                                       *)
commitB(db) == [exists |-> TRUE, db |-> db]

transactionB(before, r) == IF r.ok THEN r.db ELSE before

-----------------------------------------------------------------------------
(* Basic-Auth gate *)

\* Buffer.from(auth.split(' ')[1], 'base64').toString().split(':'), tabulated
\* over the headers the model sends
credentials ==
  [h \in Headers \cup {BasicHeader(u, p) : u \in Usernames, p \in Passwords} |->
     split(toString(Base64Decode(h.token)), ":")]

\* requireAuth looking the user up by username only
requireAuth_UserOnly(db, h) ==
  IF h.scheme # "Basic" THEN [next |-> FALSE, resp |-> Json(401, "Unauthorized")]
  ELSE LET parts    == credentials[h]
           username == parts[1]
           password == IF Len(parts) >= 2 THEN parts[2] ELSE UNDEFINED_S
       IN  IF password = UNDEFINED_S THEN [next |-> FALSE, resp |-> ServerError]
           ELSE IF {u \in db.admin_users : u.username = username} = {}
             THEN [next |-> FALSE, resp |-> Json(401, "Invalid credentials")]
           ELSE [next |-> TRUE, resp |-> NoResp]

requireAuth(db, h) ==
  IF h.scheme # "Basic" THEN [next |-> FALSE, resp |-> Json(401, "Unauthorized")]
  ELSE LET parts    == credentials[h]
           username == parts[1]
           password == IF Len(parts) >= 2 THEN parts[2] ELSE UNDEFINED_S
       IN  IF password = UNDEFINED_S THEN [next |-> FALSE, resp |-> ServerError]
           ELSE IF selectUser(db, username, password) = {}
             THEN [next |-> FALSE, resp |-> Json(401, "Invalid credentials")]
           ELSE [next |-> TRUE, resp |-> NoResp]

requireAuthB(db, h) == requireAuth(db, h)

-----------------------------------------------------------------------------
(* Process start and stop *)

Init ==
  /\ impl \in {"sqljs", "bs3"}
  /\ pc = "down"
  /\ file = NoFile
  /\ live = EmptyDB
  /\ req = [op |-> "none"]
  /\ resp = NoResp

\* server.js initDB, to the end of the CREATE TABLE statements
initDB_open ==
  /\ impl = "sqljs" /\ pc = "down"
  /\ live' = IF file.exists THEN file.db ELSE EmptyDB
  /\ pc' = "opened"
  /\ req' = [op |-> "open"]
  /\ resp' = NoResp
  /\ UNCHANGED <<impl, file>>

\* server.js initDB, count === 0: the seed loop and the default admin, in memory
initDB_seed ==
  /\ impl = "sqljs" /\ pc = "opened"
  /\ seedIsNeeded(live)
  /\ \E now \in {SeedTime} :
       LET r == seedLoop(live, FALSE, 1, now)
       IN  IF r.ok
             THEN /\ live' = IF Cardinality(r.db.admin_users) = 0
                               THEN insertAdmin(r.db) ELSE r.db
                  /\ pc' = "seeded"
                  /\ req' = [op |-> "seeding"]
             ELSE /\ live' = EmptyDB
                  /\ pc' = "down"
                  /\ req' = [op |-> "initFailed"]
  /\ resp' = NoResp
  /\ UNCHANGED <<impl, file>>

\* server.js initDB: saveDB() after seeding, then app.listen
initDB_saveDB ==
  /\ impl = "sqljs" /\ pc = "seeded"
  /\ file' = saveDB(live)
  /\ pc' = "serving"
  /\ req' = [op |-> "seed"]
  /\ resp' = NoResp
  /\ UNCHANGED <<impl, live>>

\* server.js initDB, count !== 0: nothing is inserted, nothing is saved
initDB_noSeed ==
  /\ impl = "sqljs" /\ pc = "opened"
  /\ ~seedIsNeeded(live)
  /\ pc' = "serving"
  /\ req' = [op |-> "noSeed"]
  /\ resp' = NoResp
  /\ UNCHANGED <<impl, file, live>>

\* part_000: new Database(DB_PATH), the pragmas, CREATE TABLE IF NOT EXISTS
openB ==
  /\ impl = "bs3" /\ pc = "down"
  /\ file' = commitB(file.db)
  /\ live' = file.db
  /\ pc' = "opened"
  /\ req' = [op |-> "open"]
  /\ resp' = NoResp
  /\ UNCHANGED <<impl>>

\* part_000: seedAll = db.transaction(...); seedAll()
seedAll ==
  /\ impl = "bs3" /\ pc = "opened"
  /\ seedIsNeeded(live)
  /\ \E now \in {SeedTime} :
       LET r == seedLoop(live, TRUE, 1, now)
       IN  IF r.ok
             THEN /\ live' = transactionB(live, r)
                  /\ file' = commitB(transactionB(live, r))
                  /\ pc' = "seeded"
                  /\ req' = [op |-> "seeding"]
             ELSE /\ live' = EmptyDB
                  /\ file' = file
                  /\ pc' = "down"
                  /\ req' = [op |-> "initFailed"]
  /\ resp' = NoResp
  /\ UNCHANGED <<impl>>

\* part_000: the default admin, inserted after seedAll() has committed
createAdminB ==
  /\ impl = "bs3" /\ pc = "seeded"
  /\ LET d == IF Cardinality(live.admin_users) = 0 THEN insertAdmin(live) ELSE live
     IN  live' = d /\ file' = commitB(d)
  /\ pc' = "serving"
  /\ req' = [op |-> "seed"]
  /\ resp' = NoResp
  /\ UNCHANGED <<impl>>

\* part_000, count !== 0
noSeedB ==
  /\ impl = "bs3" /\ pc = "opened"
  /\ ~seedIsNeeded(live)
  /\ pc' = "serving"
  /\ req' = [op |-> "noSeed"]
  /\ resp' = NoResp
  /\ UNCHANGED <<impl, file, live>>

\* the process is killed: what is only in memory is gone, the file stays
Crash ==
  /\ pc # "down"
  /\ pc' = "down"
  /\ live' = EmptyDB
  /\ req' = [op |-> "crash"]
  /\ resp' = NoResp
  /\ UNCHANGED <<impl, file>>

-----------------------------------------------------------------------------
(* server.js: routes *)

\* an /api/admin/* request that requireAuth answers without calling next(): the
\* route handler does not run
adminRejected(h) ==
  /\ impl = "sqljs" /\ pc = "serving"
  /\ ~requireAuth(live, h).next
  /\ req' = [op |-> "requireAuth", header |-> h]
  /\ resp' = requireAuth(live, h).resp
  /\ UNCHANGED <<impl, pc, file, live>>

\* GET /api/committees
listCommittees ==
  /\ impl = "sqljs" /\ pc = "serving"
  /\ req' = [op |-> "listCommittees"]
  /\ resp' = [status |-> 200, error |-> "",
              body |-> committeesWithTasks(live, live.committees)]
  /\ UNCHANGED <<impl, pc, file, live>>

\* what POST /api/auth/login answers for a username and a password
loginStatus(db, username, password) ==
  IF UNDEFINED_S \in {username, password} THEN 500
  ELSE IF selectUser(db, username, password) = {} THEN 401 ELSE 200

\* POST /api/auth/login
login(username, password) ==
  /\ impl = "sqljs" /\ pc = "serving"
  /\ req' = [op |-> "login"]
  /\ resp' = Json(loginStatus(live, username, password), "")
  /\ UNCHANGED <<impl, pc, file, live>>

\* PUT /api/admin/committees/:id
updateCommittee(h, id, f, now) ==
  /\ impl = "sqljs" /\ pc = "serving"
  /\ requireAuth(live, h).next
  /\ LET r == runSql(file, updateCommitteeSql(live, id, f, now))
     IN  /\ live' = r.live
         /\ file' = r.file
         /\ resp' = IF r.ok THEN Ok ELSE ServerError
         /\ req' = [op |-> "updateCommittee", header |-> h, id |-> id,
                    fields |-> f]
  /\ UNCHANGED <<impl, pc>>

\* PUT /api/admin/committees/:id/tasks
replaceTasks(h, cid, body) ==
  /\ impl = "sqljs" /\ pc = "serving"
  /\ live.taskSeq + Len(body.tasks) <= MaxTaskId
  /\ requireAuth(live, h).next
  /\ LET d == deleteTasks(live, cid)
         r == insertTasks(d, FALSE, cid, body.tasks, 0)
     IN  /\ live' = r.db
         /\ file' = IF r.ok THEN saveDB(r.db) ELSE file
         /\ resp' = IF r.ok THEN Ok ELSE ServerError
         /\ req' = [op |-> "replaceTasks", header |-> h, id |-> cid,
                    body |-> body]
  /\ UNCHANGED <<impl, pc>>

\* PUT /api/admin/password
setPassword(h, username, newPassword) ==
  /\ impl = "sqljs" /\ pc = "serving"
  /\ requireAuth(live, h).next
  /\ LET r == runSql(file, updatePasswordSql(live, username, newPassword))
     IN  /\ live' = r.live
         /\ file' = r.file
         /\ resp' = IF r.ok THEN Ok ELSE ServerError
         /\ req' = [op |-> "setPassword", header |-> h]
  /\ UNCHANGED <<impl, pc>>

-----------------------------------------------------------------------------
(* part_000: routes *)

\* an /api/admin/* request that requireAuth answers without calling next(): the
\* route handler does not run
adminRejectedB(h) ==
  /\ impl = "bs3" /\ pc = "serving"
  /\ ~requireAuthB(live, h).next
  /\ req' = [op |-> "requireAuth", header |-> h]
  /\ resp' = requireAuthB(live, h).resp
  /\ UNCHANGED <<impl, pc, file, live>>

\* GET /api/committees
listCommitteesB ==
  /\ impl = "bs3" /\ pc = "serving"
  /\ req' = [op |-> "listCommittees"]
  /\ resp' = [status |-> 200, error |-> "",
              body |-> committeesWithTasks(live, live.committees)]
  /\ UNCHANGED <<impl, pc, file, live>>

\* POST /api/auth/login
loginB(username, password) ==
  /\ impl = "bs3" /\ pc = "serving"
  /\ req' = [op |-> "login"]
  /\ resp' = Json(loginStatus(live, username, password), "")
  /\ UNCHANGED <<impl, pc, file, live>>

\* PUT /api/admin/committees/:id
updateCommitteeB(h, id, f, now) ==
  /\ impl = "bs3" /\ pc = "serving"
  /\ requireAuthB(live, h).next
  /\ LET r == updateCommitteeSql(live, id, f, now)
     IN  /\ live' = r.db
         /\ file' = commitB(r.db)
         /\ resp' = IF r.ok THEN Ok ELSE ServerError
         /\ req' = [op |-> "updateCommittee", header |-> h, id |-> id,
                    fields |-> f]
  /\ UNCHANGED <<impl, pc>>

\* PUT /api/admin/committees/:id/tasks: updateAll = db.transaction(...); updateAll()
updateAll(h, cid, body) ==
  /\ impl = "bs3" /\ pc = "serving"
  /\ live.taskSeq + Len(body.tasks) <= MaxTaskId
  /\ requireAuthB(live, h).next
  /\ LET d == deleteTasks(live, cid)
         r == insertTasks(d, TRUE, cid, body.tasks, 0)
         after == transactionB(live, r)
     IN  /\ live' = after
         /\ file' = commitB(after)
         /\ resp' = IF r.ok THEN Ok ELSE ServerError
         /\ req' = [op |-> "replaceTasks", header |-> h, id |-> cid,
                    body |-> body]
  /\ UNCHANGED <<impl, pc>>

\* PUT /api/admin/password
setPasswordB(h, username, newPassword) ==
  /\ impl = "bs3" /\ pc = "serving"
  /\ requireAuthB(live, h).next
  /\ LET r == updatePasswordSql(live, username, newPassword)
     IN  /\ live' = r.db
         /\ file' = commitB(r.db)
         /\ resp' = IF r.ok THEN Ok ELSE ServerError
         /\ req' = [op |-> "setPassword", header |-> h]
  /\ UNCHANGED <<impl, pc>>

-----------------------------------------------------------------------------

Next ==
  \/ initDB_open \/ initDB_seed \/ initDB_saveDB \/ initDB_noSeed
  \/ openB \/ seedAll \/ createAdminB \/ noSeedB
  \/ Crash
  \/ \E h \in Headers : adminRejected(h)
  \/ listCommittees
  \/ \E u \in Usernames, p \in Passwords : login(u, p)
  \/ \E h \in Headers, id \in RequestIds, f \in FieldSets, now \in Times :
       updateCommittee(h, id, f, now)
  \/ \E h \in Headers, id \in RequestIds, b \in TaskBodies : replaceTasks(h, id, b)
  \/ \E h \in Headers, u \in Usernames, p \in Passwords :
       setPassword(h, u, p)
  \/ \E h \in Headers : adminRejectedB(h)
  \/ listCommitteesB
  \/ \E u \in Usernames, p \in Passwords : loginB(u, p)
  \/ \E h \in Headers, id \in RequestIds, f \in FieldSets, now \in Times :
       updateCommitteeB(h, id, f, now)
  \/ \E h \in Headers, id \in RequestIds, b \in TaskBodies : updateAll(h, id, b)
  \/ \E h \in Headers, u \in Usernames, p \in Passwords :
       setPasswordB(h, u, p)

Spec == Init /\ [][Next]_vars

-----------------------------------------------------------------------------
(* Properties *)

\* rows of a committee's tasks as the client sent them: text and done, in order
sent(rows) == [i \in 1..Len(rows) |-> [text |-> rows[i].text, done |-> rows[i].done]]

\* the step just taken handled a PUT .../tasks that passed requireAuth
ReplaceStep == pc = "serving" /\ pc' = "serving" /\ req'.op = "replaceTasks"

\* C1: replaceTasks is all-or-nothing: a replacement that fails (it is not
\* answered 200) leaves the task rows of the live database, and the file, exactly
\* as they were before the call.
C1_AllOrNothing ==
  [][(ReplaceStep /\ resp'.status # 200) => (live'.tasks = live.tasks /\ file' = file)]_vars

Unseeded(db) == db.committees = {} /\ db.tasks = {} /\ db.admin_users = {}

\* all seed committees and exactly one admin account (the task rows of a seeded
\* database may since have been replaced)
Seeded(db) ==
  {c.id : c \in db.committees} = SeedIds /\ Cardinality(db.admin_users) = 1

\* C2: seeding is atomic with respect to crashes: the database a startup opens
\* is either entirely unseeded or has all seed committees and exactly one admin
\* account; a non-empty committees table with no admin account is never opened.
C2_SeedAtomic ==
  pc = "opened" =>
    Unseeded(live) \/ Seeded(live)

\* C4: every task row's committee_id references an existing committee, in the
\* live database and in the file.
C4_NoOrphanTasks ==
  \A db \in {live, file.db} :
    \A t \in db.tasks : \E c \in db.committees : c.id = t.committee_id

\* C8: a committee's task list is decided by its own last replaceTasks call only:
\* a step between two responses changes the task list of committee c only when it
\* is a replaceTasks on c answered 200, and then the list is the one supplied.
C8_OnlyOwnLastReplace ==
  [][(pc = "serving" /\ pc' = "serving") =>
       \A c \in RequestIds :
         IF req'.op = "replaceTasks" /\ req'.id = c /\ resp'.status = 200
           THEN sent(tasksOf(live', c)) = req'.body.tasks
           ELSE tasksOf(live', c) = tasksOf(live, c)]_vars

\* C10: the login endpoint and the Basic-Auth gate accept the same credential
\* pairs: login(username, password) is answered 200 exactly when the header
\* Basic base64(username:password) passes requireAuth.
C10_LoginAgreesWithGate ==
  pc = "serving" =>
    \A u \in Usernames, p \in Passwords :
      (loginStatus(live, u, p) = 200) <=> requireAuth(live, BasicHeader(u, p)).next

\* C3: when a mutating call has been answered 200, and when seeding has
\* finished, the file holds the live database; and a restart reads that file.
C3_DurableAfterResponse ==
  /\ (/\ pc = "serving"
      /\ \/ req.op = "seed"
         \/ (req.op \in {"updateCommittee", "replaceTasks", "setPassword"}
               /\ resp.status = 200))
       => (file.exists /\ file.db = live)
  /\ pc = "opened" => live = file.db

\* a restart of the sql.js build sees the password that setPassword stored
C3_Witness ==
  /\ impl = "sqljs" /\ pc = "opened"
  /\ \E u \in live.admin_users : u.password = ColonPassword

\* C5: startup against a database whose committees table is non-empty changes
\* nothing: the process opens the file as it is, inserts no row, overwrites no
\* admin account and goes on to serve.
C5_SeedIdempotent ==
  [][/\ (pc = "down" /\ pc' = "opened" /\ file.db.committees # {})
          => (live' = file.db /\ file' = file)
     /\ (pc = "opened" /\ live.committees # {} /\ req'.op # "crash")
          => (pc' = "serving" /\ live' = live /\ file' = file)]_vars

\* a restart went past the seed block and serves the changed password
C5_Witness ==
  /\ pc = "serving" /\ req.op = "noSeed"
  /\ \E u \in live.admin_users : u.password = ColonPassword

\* the gate answered 401 with this error, the handler did not run, nothing changed
Refused(error) ==
  /\ req'.op = "requireAuth"
  /\ resp'.status = 401 /\ resp'.error = error
  /\ live' = live /\ file' = file

C7_ReplaceResult ==
  /\ (pc = "serving" /\ req.op = "replaceTasks" /\ resp.status = 200) =>
       LET l      == req.body.tasks
           rows   == {t \in live.tasks : t.committee_id = req.id}
           listed == tasksOf(live, req.id)
       IN  /\ Cardinality(rows) = Len(l)
           /\ {t.sort_order : t \in rows} = 0..(Len(l) - 1)
           /\ sent(listed) = l
           /\ \A i \in 1..Len(listed) : listed[i].sort_order = i - 1
  /\ (pc = "serving" /\ req.op = "listCommittees") =>
       \A k \in 1..Len(resp.body) :
         \A i, j \in 1..Len(resp.body[k].tasks) :
           i < j => resp.body[k].tasks[i].sort_order <= resp.body[k].tasks[j].sort_order

\* a two-task list replaced the tasks of an existing committee
C7_Witness ==
  /\ pc = "serving" /\ req.op = "replaceTasks" /\ resp.status = 200
  /\ req.body.tasks = <<Y, X>>
  /\ \E c \in live.committees : c.id = req.id

\* C9: updateCommittee that passed the gate: on an id that does not exist it is
\* answered 200 and no row changes; on an existing id answered 200 it writes the
\* editable fields and updated_at of that committee, and its id, every task
\* row, every admin row and every other committee stay as they were.
C9_UpdateFrame ==
  [][(pc = "serving" /\ pc' = "serving" /\ req'.op = "updateCommittee") =>
       IF ~\E c \in live.committees : c.id = req'.id
         THEN resp'.status = 200 /\ live' = live
         ELSE resp'.status = 200 =>
                /\ live'.tasks = live.tasks
                /\ live'.admin_users = live.admin_users
                /\ {c \in live'.committees : c.id # req'.id}
                     = {c \in live.committees : c.id # req'.id}
                /\ {c.id : c \in live'.committees} = {c.id : c \in live.committees}
                /\ Cardinality(live'.committees) = Cardinality(live.committees)
                /\ \A c \in live'.committees : c.id = req'.id =>
                     /\ \A k \in DOMAIN req'.fields : c[k] = req'.fields[k]
                     /\ c.updated_at \in Times]_vars

\* an update of a committee id that does not exist was answered 200
C9_Witness ==
  /\ pc = "serving" /\ req.op = "updateCommittee" /\ resp.status = 200
  /\ ~\E c \in live.committees : c.id = req.id

=============================================================================
